---- MODULE Spec2Model ----
(***************************************************************************)
(* A model of the LazySorted partial-sort engine of src/lazysorted.c: the  *)
(* element array xs, the treap of pivot nodes kept in a heap of node       *)
(* blocks, and the public operations (subscript, slice, between, index,    *)
(* count, contains) built on sort_point, sort_range and find_item.         *)
(*                                                                         *)
(* Array positions are C indices 0..N-1.  Pivot nodes live in blocks named *)
(* by handles 1..NumHandles; NULL is 0.  A freed block keeps its last      *)
(* contents until the allocator hands it out again, so a read through a    *)
(* dangling pointer sees either the stale node or the node that reuses the *)
(* block; PyMem_Malloc may return any block freed earlier or a fresh one.  *)
(***************************************************************************)
EXTENDS Integers, Sequences, FiniteSets, TLC

\* ---------------------------------------------------------------- bounds
MaxLen == 3          \* longest element array
MaxVal == 2          \* elements are the integers 1..MaxVal, compared by <
MaxPrio == 2         \* rand() priorities are drawn from 1..MaxPrio
FailLen == 2         \* length of the lists whose comparisons can fail
MaxFail == 1         \* comparator calls that fail in one run
MaxAfter == 1        \* public operations followed after the first fault (a
                     \* comparator failure or undefined behaviour)

\* ------------------------------------------------------- program constants
SORT_THRESH == 2
CONTIG_THRESH == 1
UNSORTED == 0
SORTED_RIGHT == 1
SORTED_LEFT == 2
SORTED_BOTH == 3
NULL == 0

Vals == 1..MaxVal
Prios == 1..MaxPrio
NumHandles == MaxLen + 4
Handles == 1..NumHandles
Fuel == NumHandles + 2

HasRight(f) == f % 2 = 1
HasLeft(f) == (f \div 2) % 2 = 1
OrFlag(f, b) == IF b = SORTED_RIGHT
                THEN (IF HasRight(f) THEN f ELSE f + SORTED_RIGHT)
                ELSE (IF HasLeft(f) THEN f ELSE f + SORTED_LEFT)

\* ------------------------------------------------------------ the array
Size(a) == Cardinality(DOMAIN a)

\* SWAP(i, j) without its last assignment: ob_item[j] keeps its element.
SwapLosing(a, i, j) == [a EXCEPT ![i] = a[j]]

\* SWAP(i, j)
Swap(a, i, j) == [a EXCEPT ![i] = a[j], ![j] = a[i]]

\* ISLT(X, Y) answering 1 also when x equals y.
ISLE(x, y, n, fa) == IF n = fa THEN -1 ELSE IF x <= y THEN 1 ELSE 0

\* ISLT(X, Y) as the n-th comparator call of a step of which call number fa
\* fails: 1 if x < y, 0 if x >= y, -1 on error.
ISLT(x, y, n, fa) == IF n = fa THEN -1 ELSE IF x < y THEN 1 ELSE 0

\* PyObject_RichCompareBool(x, y, Py_EQ), likewise.
ISEQ(x, y, n, fa) == IF n = fa THEN -1 ELSE IF x = y THEN 1 ELSE 0

\* The loop of partition: i scans left+1..right-1; the comparison made at i is
\* call number i - left.  Returns the array, the pivot index (-1 on error)
\* and the number of comparator calls made.
RECURSIVE PartLoop(_, _, _, _, _, _, _)
PartLoop(a, left, right, pivot, i, last_less, fa) ==
  IF i >= right
  THEN [xs |-> Swap(a, left, last_less), piv |-> last_less, n |-> right - left - 1]
  ELSE LET lt == ISLT(a[i], pivot, i - left, fa) IN
       IF lt < 0 THEN [xs |-> a, piv |-> -1, n |-> i - left]
       ELSE IF lt = 1
       THEN PartLoop(Swap(a, i, last_less + 1), left, right, pivot, i + 1,
                     last_less + 1, fa)
       ELSE PartLoop(a, left, right, pivot, i + 1, last_less, fa)

\* partition(ob_item, left, right) with pick_pivot's choice piv_idx.
partition(a, left, right, piv_idx, fa) ==
  PartLoop(Swap(a, left, piv_idx), left, right, a[piv_idx], left + 1, left, fa)

\* The inner loop of insertion_sort: a failed ISLT is -1, which C takes as true.
RECURSIVE InsInner(_, _, _, _, _)
InsInner(a, tmp, j, n, fa) ==
  IF j > 0
  THEN LET lt == ISLT(tmp, a[j - 1], n + 1, fa) IN
       IF lt # 0
       THEN InsInner([a EXCEPT ![j] = a[j - 1]], tmp, j - 1, n + 1, fa)
       ELSE [xs |-> [a EXCEPT ![j] = tmp], n |-> n + 1]
  ELSE [xs |-> [a EXCEPT ![j] = tmp], n |-> n]

RECURSIVE InsOuter(_, _, _, _, _)
InsOuter(a, i, right, n, fa) ==
  IF i >= right THEN [xs |-> a, n |-> n]
  ELSE LET r == InsInner(a, a[i], i, n, fa) IN
       InsOuter(r.xs, i + 1, right, r.n, fa)

\* insertion_sort(ob_item, left, right): returns nothing; n counts the calls.
insertion_sort(a, left, right, fa) == InsOuter(a, left, right, 0, fa)

\* quick_sort(ob_item, left, right) for every choice of pivots: the set of
\* [xs, rc, n] it can end in (rc 0 on success, -1 on error).
RECURSIVE quick_sort(_, _, _, _), QsParted(_, _, _, _), QsRight(_, _, _, _)

QsLeaf(r) == [xs |-> r.xs, rc |-> 0, n |-> r.n]

\* quick_sort after its second recursive call q2.
QsJoin(p, q1, q2) == [xs |-> q2.xs, rc |-> q2.rc, n |-> p.n + q1.n + q2.n]

\* quick_sort after its first recursive call q1.
QsRight(q1, p, right, fa) ==
  IF q1.rc < 0 THEN {[xs |-> q1.xs, rc |-> -1, n |-> p.n + q1.n]}
  ELSE { QsJoin(p, q1, q2) :
         q2 \in quick_sort(q1.xs, p.piv + 1, right, fa - p.n - q1.n) }

\* quick_sort after partition returned p.
QsParted(p, left, right, fa) ==
  IF p.piv < 0 THEN {[xs |-> p.xs, rc |-> -1, n |-> p.n]}
  ELSE UNION { QsRight(q1, p, right, fa) :
               q1 \in quick_sort(p.xs, left, p.piv, fa - p.n) }

quick_sort(a, left, right, fa) ==
  IF right - left <= SORT_THRESH
  THEN {QsLeaf(insertion_sort(a, left, right, fa))}
  ELSE UNION { QsParted(partition(a, left, right, pick, fa), left, right, fa) :
               pick \in left..(right - 1) }

\* ------------------------------------------------------ the pivot treap
HANG == -1           \* a walk that never ends (a cycle of stale pointers)

ZeroNode == [idx |-> 0, flags |-> UNSORTED, priority |-> 0,
             left |-> NULL, right |-> NULL, parent |-> NULL]

RECURSIVE LeftMost(_, _, _)
LeftMost(h, c, fuel) ==
  IF fuel = 0 THEN HANG
  ELSE IF h[c].left = NULL THEN c
  ELSE LeftMost(h, h[c].left, fuel - 1)

RECURSIVE ClimbRight(_, _, _)
ClimbRight(h, c, fuel) ==
  IF fuel = 0 THEN HANG
  ELSE IF h[c].parent # NULL /\ h[h[c].parent].idx < h[c].idx
  THEN ClimbRight(h, h[c].parent, fuel - 1)
  ELSE c

\* The parent next_pivot returns once the climb has stopped at c.
ParentOf(h, c) == IF c = HANG THEN HANG ELSE h[c].parent

\* next_pivot(current): the next (bigger) pivot, or NULL if it is the last.
next_pivot(h, current) ==
  IF h[current].right # NULL
  THEN LeftMost(h, h[current].right, Fuel)
  ELSE ParentOf(h, ClimbRight(h, current, Fuel))

\* The loop of bound_idx keeping the first greater pivot it meets as `right`.
RECURSIVE BoundLoopFirst(_, _, _, _, _, _)
BoundLoopFirst(h, k, current, l, r, fuel) ==
  IF current = NULL THEN [left |-> l, right |-> r]
  ELSE IF fuel = 0 THEN [left |-> HANG, right |-> HANG]
  ELSE IF h[current].idx < k
  THEN BoundLoopFirst(h, k, h[current].right, current, r, fuel - 1)
  ELSE IF h[current].idx > k
  THEN BoundLoopFirst(h, k, h[current].left, l,
                      IF r = NULL THEN current ELSE r, fuel - 1)
  ELSE [left |-> current, right |-> r]

\* The loop of bound_idx going on into the right subtree of a pivot on k.
RECURSIVE BoundLoopPast(_, _, _, _, _, _)
BoundLoopPast(h, k, current, l, r, fuel) ==
  IF current = NULL THEN [left |-> l, right |-> r]
  ELSE IF fuel = 0 THEN [left |-> HANG, right |-> HANG]
  ELSE IF h[current].idx <= k
  THEN BoundLoopPast(h, k, h[current].right, current, r, fuel - 1)
  ELSE BoundLoopPast(h, k, h[current].left, l, current, fuel - 1)

RECURSIVE BoundLoop(_, _, _, _, _, _)
BoundLoop(h, k, current, l, r, fuel) ==
  IF current = NULL THEN [left |-> l, right |-> r]
  ELSE IF fuel = 0 THEN [left |-> HANG, right |-> HANG]
  ELSE IF h[current].idx < k
  THEN BoundLoop(h, k, h[current].right, current, r, fuel - 1)
  ELSE IF h[current].idx > k
  THEN BoundLoop(h, k, h[current].left, l, current, fuel - 1)
  ELSE [left |-> current, right |-> r]

\* bound_idx(k, root, &left, &right)
bound_idx(k, h, root) == BoundLoop(h, k, root, NULL, NULL, Fuel)

\* The descent of insert_pivot from `current`: links node under a leaf, or
\* finds the index taken ("dup").
RECURSIVE InsDescend(_, _, _, _, _)
InsDescend(h, k, node, current, fuel) ==
  IF fuel = 0 THEN [heap |-> h, st |-> "hang"]
  ELSE IF h[current].idx < k
  THEN IF h[current].right = NULL
       THEN [heap |-> [[h EXCEPT ![current].right = node]
                          EXCEPT ![node].parent = current],
             st |-> "linked"]
       ELSE InsDescend(h, k, node, h[current].right, fuel - 1)
  ELSE IF h[current].idx > k
  THEN IF h[current].left = NULL
       THEN [heap |-> [[h EXCEPT ![current].left = node]
                          EXCEPT ![node].parent = current],
             st |-> "linked"]
       ELSE InsDescend(h, k, node, h[current].left, fuel - 1)
  ELSE [heap |-> h, st |-> "dup"]

\* The last assignment of a rotation: child->parent = parent.
Reparent(h, child, parent) ==
  IF child # NULL THEN [h EXCEPT ![child].parent = parent] ELSE h

\* One rotation of node above its parent, the assignments in program order.
RotateUp(h, node) ==
  LET parent == h[node].parent
      grandparent == h[h[node].parent].parent
  IN IF h[node].idx < h[parent].idx
     THEN Reparent([h EXCEPT ![node].parent = grandparent,
                             ![node].right = parent,
                             ![parent].parent = node,
                             ![parent].left = h[node].right],
                   h[node].right, parent)
     ELSE Reparent([h EXCEPT ![node].parent = grandparent,
                             ![node].left = parent,
                             ![parent].parent = node,
                             ![parent].right = h[node].left],
                   h[node].left, parent)

RECURSIVE InsRotate(_, _, _, _, _), InsRelink(_, _, _, _, _)

\* After a rotation gave h5: node->parent's child pointer is set to node, or
\* node has become the root.
InsRelink(h5, root, node, k, fuel) ==
  LET np == h5[node].parent IN
  IF np # NULL
  THEN InsRotate(IF k < h5[np].idx THEN [h5 EXCEPT ![np].left = node]
                 ELSE [h5 EXCEPT ![np].right = node],
                 root, node, k, fuel - 1)
  ELSE [heap |-> h5, root |-> node, st |-> "ok"]

\* The loop that re-establishes the heap order by rotations.
InsRotate(h, root, node, k, fuel) ==
  IF fuel = 0 THEN [heap |-> h, root |-> root, st |-> "hang"]
  ELSE IF ~(h[node].priority > h[h[node].parent].priority)
  THEN [heap |-> h, root |-> root, st |-> "ok"]
  ELSE InsRelink(RotateUp(h, node), root, node, k, fuel)

\* "Build the node": the fields insert_pivot sets in the block malloc gave.
NewNode(h, blk, k, flags, prio) ==
  [h EXCEPT ![blk] = [@ EXCEPT !.idx = k, !.flags = flags, !.priority = prio,
                               !.left = NULL, !.right = NULL]]

\* What insert_pivot returns after its rotation loop ended in r.
InsRotated(r, blk) ==
  [heap |-> r.heap, root |-> r.root,
   node |-> IF r.st = "ok" THEN blk ELSE NULL, st |-> r.st]

\* insert_pivot after the descent ended in d.
InsLinked(d, root, blk, k) ==
  IF d.st # "linked"
  THEN [heap |-> d.heap, root |-> root, node |-> NULL, st |-> d.st]
  ELSE InsRotated(InsRotate(d.heap, root, blk, k, Fuel), blk)

\* insert_pivot(k, flags, &root, start) into the block blk that PyMem_Malloc
\* returned (NULL when it failed), with rand() = prio.  node is NULL on error.
insert_pivot(k, flags, h, root, start, prio, blk) ==
  IF blk = NULL THEN [heap |-> h, root |-> root, node |-> NULL, st |-> "nomem"]
  ELSE IF root = NULL
  THEN [heap |-> [NewNode(h, blk, k, flags, prio) EXCEPT ![blk].parent = NULL],
        root |-> blk, node |-> blk, st |-> "ok"]
  ELSE InsLinked(InsDescend(NewNode(h, blk, k, flags, prio), k, blk, start,
                            Fuel),
                 root, blk, k)

\* merge_trees keeping the left tree only when there are two.
MergeLeft(h, l, r, fuel) ==
  IF l = NULL THEN [heap |-> h, top |-> r] ELSE [heap |-> h, top |-> l]

RECURSIVE merge_trees(_, _, _, _)

\* merge_trees once the recursive call returned m: top takes it as a child.
Merged(m, top, side) ==
  IF m.top = HANG THEN m
  ELSE [heap |-> IF side = "right" THEN [m.heap EXCEPT ![top].right = m.top]
                 ELSE [m.heap EXCEPT ![top].left = m.top],
        top |-> top]

\* merge_trees(left, right): the merged root, links rewritten on the way.
merge_trees(h, l, r, fuel) ==
  IF l = NULL THEN [heap |-> h, top |-> r]
  ELSE IF r = NULL THEN [heap |-> h, top |-> l]
  ELSE IF fuel = 0 THEN [heap |-> h, top |-> HANG]
  ELSE IF h[l].priority > h[r].priority
  THEN Merged(merge_trees([h EXCEPT ![r].parent = l], h[l].right, r, fuel - 1),
              l, "right")
  ELSE Merged(merge_trees([h EXCEPT ![l].parent = r], l, h[r].left, fuel - 1),
              r, "left")

\* The grandparent (or the root) adopts `child` in place of node.
Adopt(h, root, node, child) ==
  LET p == h[node].parent IN
  IF p # NULL
  THEN [heap |-> IF h[p].left = node THEN [h EXCEPT ![p].left = child]
                 ELSE [h EXCEPT ![p].right = child],
        root |-> root]
  ELSE [heap |-> h, root |-> child]

\* delete_node with a single child: after the adoption a, the child c takes
\* node's parent; node->left->parent with no left child is a NULL dereference.
Orphan(a, node, c, must) ==
  [heap |-> IF c # NULL THEN [a.heap EXCEPT ![c].parent = a.heap[node].parent]
            ELSE a.heap,
   root |-> a.root,
   st |-> IF must /\ c = NULL THEN "crash" ELSE "ok"]

\* The same, the child read from node's field after the adoption.
OrphanOf(a, node, field, must) == Orphan(a, node, a.heap[node][field], must)

\* delete_node with two children, merged into m.
Replace(m, h, root, node) ==
  IF m.top = HANG THEN [heap |-> m.heap, root |-> root, st |-> "hang"]
  ELSE Orphan(Adopt(m.heap, root, node, m.top), node, m.top, FALSE)

\* delete_node(node, &root) up to, not including, PyMem_Free(node).
delete_node(node, h, root) ==
  IF h[node].left = NULL
  THEN OrphanOf(Adopt(h, root, node, h[node].right), node, "right", FALSE)
  ELSE IF h[node].right = NULL
  THEN OrphanOf(Adopt(h, root, node, h[node].left), node, "left", TRUE)
  ELSE Replace(merge_trees(h, h[node].left, h[node].right, Fuel), h, root, node)

\* --------------------------------------------------------- the machine
\* A record m holds the program state while one step is computed: xs, heap,
\* root, live (allocated blocks), freed (free blocks still referred to), pc,
\* op (the running public operation and where it is), the locals left and
\* right, result, st ("ok", or "crash"/"hang" once the process is lost), and
\* for the step: fa (the number of the comparator call that fails, 0 = none),
\* cmp (comparator calls made so far), u (what an out-of-bounds read or a
\* double free does: 2 aborts the process; -1, 0, 1 is what the comparison of
\* the stray value answers, and a double free passes unnoticed) and ubseen.

NoOp == [name |-> "none", arg |-> << >>, k |-> 0, todo |-> << >>,
         acc |-> << >>, lo |-> 0, hi |-> 0, stage |-> 0]

NoResult == [kind |-> "none", val |-> << >>]

Fail(m, why) == [m EXCEPT !.st = IF @ = "ok" THEN why ELSE @]

\* PyMem_Free(node): freeing a block twice is undefined.
FreeM(m, node) ==
  IF node \in m.live
  THEN [m EXCEPT !.live = @ \ {node}, !.freed = @ \cup {node}]
  ELSE IF m.u = 2
  THEN Fail([m EXCEPT !.freed = @ \cup {node}, !.ubseen = TRUE], "crash")
  ELSE [m EXCEPT !.freed = @ \cup {node}, !.ubseen = TRUE]

\* delete_node(node, &ls->root) returned d; then the free.
Deleted(m, d, node) ==
  IF d.st # "ok" THEN Fail([m EXCEPT !.heap = d.heap, !.root = d.root], d.st)
  ELSE FreeM([m EXCEPT !.heap = d.heap, !.root = d.root], node)

\* delete_node(node, &ls->root), the free included.
DeleteM(m, node) ==
  IF m.st # "ok" THEN m
  ELSE Deleted(m, delete_node(node, m.heap, m.root), node)

SetFlag(m, node, b) == [m EXCEPT !.heap[node].flags = OrFlag(@, b)]

\* The second half of depivot.
DepivotRight(m1, r) ==
  IF m1.st # "ok" THEN m1
  ELSE IF HasLeft(m1.heap[r].flags) THEN DeleteM(m1, r) ELSE m1

\* depivot deleting nothing.
DepivotNever(m, l, r) == m

\* depivot(left, right, &root)
depivot(m, l, r) ==
  DepivotRight(IF HasRight(m.heap[l].flags) THEN DeleteM(m, l) ELSE m, r)

\* uniq_pivots after one comparison answered c: middle takes the flags of
\* victim and victim is deleted when they are equal.
UniqCompared(m1, c, middle, victim) ==
  IF c = 2 THEN [m |-> Fail(m1, "crash"), rc |-> -1]
  ELSE IF c < 0 THEN [m |-> m1, rc |-> -1]
  ELSE IF c = 1
  THEN [m |-> DeleteM([m1 EXCEPT !.heap[middle].flags = m1.heap[victim].flags],
                      victim),
        rc |-> 0]
  ELSE [m |-> m1, rc |-> 0]

\* One comparison of uniq_pivots: ob_item[a->idx] == ob_item[b->idx].
UniqSide(m, a, b, middle, victim) ==
  IF middle = NULL THEN [m |-> Fail(m, "crash"), rc |-> -1]
  ELSE IF m.heap[a].idx \in DOMAIN m.xs /\ m.heap[b].idx \in DOMAIN m.xs
  THEN UniqCompared([m EXCEPT !.cmp = @ + 1],
                    ISEQ(m.xs[m.heap[a].idx], m.xs[m.heap[b].idx], m.cmp + 1,
                         m.fa),
                    middle, victim)
  ELSE UniqCompared([m EXCEPT !.ubseen = TRUE], m.u, middle, victim)

\* The second half of uniq_pivots, s1 being what the first half made.
UniqRight(s1, middle, r) ==
  IF s1.rc < 0 \/ s1.m.st # "ok" THEN s1
  ELSE IF s1.m.heap[r].idx < Size(s1.m.xs)
  THEN UniqSide(s1.m, middle, r, middle, r)
  ELSE s1

\* uniq_pivots(left, middle, right, ls): 0 on success, -1 on failure.
uniq_pivots(m, l, middle, r) ==
  UniqRight(IF m.heap[l].idx >= 0 THEN UniqSide(m, l, middle, middle, l)
            ELSE [m |-> m, rc |-> 0],
            middle, r)

\* The blocks reachable from the blocks S by any pointer.
RECURSIVE Closure(_, _)
Closure(h, S) ==
  LET T == (S \cup UNION {{h[x].left, h[x].right, h[x].parent} : x \in S})
           \ {NULL}
  IN IF T = S THEN S ELSE Closure(h, T)

Reach(h, root) == IF root = NULL THEN {} ELSE Closure(h, {root})

\* The position of block x among the blocks R in index order.
Rank(h, R, x) ==
  IF x = NULL THEN NULL
  ELSE 1 + Cardinality({y \in R : h[y].idx < h[x].idx})

\* The node of block x with its pointers renamed.
Moved(h, R, x) ==
  [h[x] EXCEPT !.left = Rank(h, R, @), !.right = Rank(h, R, @),
               !.parent = Rank(h, R, @)]

\* Block addresses carry no meaning: blocks that neither the tree nor the
\* locals left and right refer to are forgotten and, if the indices of the
\* others are distinct, the blocks are renamed in index order.
Renamed(m, R) ==
  IF \A x, y \in R : x # y => m.heap[x].idx # m.heap[y].idx
  THEN [m EXCEPT
          !.heap = [n \in Handles |->
                      IF n <= Cardinality(R)
                      THEN Moved(m.heap, R,
                                 CHOOSE x \in R : Rank(m.heap, R, x) = n)
                      ELSE ZeroNode],
          !.root = Rank(m.heap, R, @),
          !.left = Rank(m.heap, R, @),
          !.right = Rank(m.heap, R, @),
          !.live = {Rank(m.heap, R, x) : x \in R \cap m.live},
          !.freed = {Rank(m.heap, R, x) : x \in R \ m.live}]
  ELSE [m EXCEPT
          !.heap = [n \in Handles |-> IF n \in R THEN m.heap[n] ELSE ZeroNode],
          !.live = R \cap m.live,
          !.freed = R \ m.live]

Canon(m) == Renamed(m, Closure(m.heap, {m.root, m.left, m.right} \ {NULL}))

\* The process is lost (a crash, or a loop that never ends): nothing of its
\* memory remains.
Crashed(m) ==
  [m EXCEPT !.pc = "crashed", !.xs = << >>,
            !.heap = [n \in Handles |-> ZeroNode], !.root = NULL,
            !.live = {}, !.freed = {}, !.left = NULL, !.right = NULL,
            !.result = NoResult,
            !.op = [NoOp EXCEPT !.name = m.op.name, !.arg = m.op.arg]]

\* The public operation returns to its caller.
Done(m, kind, val) ==
  IF m.st # "ok" THEN Crashed(m)
  ELSE [m EXCEPT !.pc = "done", !.left = NULL, !.right = NULL,
                 !.result = [kind |-> kind, val |-> val],
                 !.op = [NoOp EXCEPT !.name = m.op.name, !.arg = m.op.arg,
                                     !.k = m.op.k, !.lo = m.op.lo,
                                     !.hi = m.op.hi]]

\* ------------------------------------------- sort_point and its callers
\* The list a slice returns: ob_item[start], ob_item[start + step], ...
SliceList(a, start, step, len) ==
  [j \in 1..len |-> a[start + (j - 1) * step]]

\* The list between returns: ob_item[lo .. hi).
RangeList(a, lo, hi) == [j \in 1..(hi - lo) |-> a[lo + j - 1]]

\* ob_item[lo .. hi) when lo < 0: what lies before the array is not an
\* element (Stray); the read may also end the process.
Stray == 0

StrayList(a, lo, hi) ==
  [j \in 1..(hi - lo) |-> IF lo + j - 1 \in DOMAIN a THEN a[lo + j - 1]
                          ELSE Stray]

Lost(m, why) == Crashed(Fail(m, why))

\* sort_range enters its loop with current = cur and next = nx.
SrEnter(m, cur, nx) ==
  IF nx = HANG THEN Lost(m, "hang")
  ELSE [m EXCEPT !.pc = "sr_walk", !.left = cur, !.right = nx, !.op.stage = 3]

\* sort_range after bound_idx(start) returned b: next is taken from
\* next_pivot when current sits on start.
SrBounded(m, b) ==
  IF b.left = HANG THEN Lost(m, "hang")
  ELSE IF b.left = NULL THEN Lost(m, "crash")
  ELSE SrEnter(m, b.left,
               IF m.heap[b.left].idx = m.op.lo
               THEN next_pivot(m.heap, b.left) ELSE b.right)

\* sort_range after its two sort_point calls.
StartWalk(m) == SrBounded(m, bound_idx(m.op.lo, m.heap, m.root))

RECURSIVE AfterSortPoint(_, _), CallSortPoint(_, _), SpBounded(_, _, _)

\* sort_point after bound_idx(k) returned b: it returns at once when k is a
\* pivot or lies in a sorted region, else enters its quickselect loop.
SpBounded(m, b, k) ==
  IF b.left = HANG THEN Lost(m, "hang")
  ELSE IF b.left = NULL \/ (m.heap[b.left].idx # k /\ b.right = NULL)
  THEN Lost(m, "crash")
  ELSE IF m.heap[b.left].idx = k \/ HasRight(m.heap[b.right].flags)
  THEN AfterSortPoint(m, 0)
  ELSE [m EXCEPT !.pc = "sp_loop", !.left = b.left, !.right = b.right]

\* sort_point(ls, k) up to its quickselect loop.
CallSortPoint(m, k) ==
  SpBounded([m EXCEPT !.op.k = k], bound_idx(k, m.heap, m.root), k)

\* What the caller of sort_point does with its return value rc.
AfterSortPoint(m, rc) ==
  IF m.st # "ok" THEN Crashed(m)
  ELSE IF rc < 0 THEN Done(m, "error", << >>)
  ELSE IF m.op.name = "get"
  THEN Done(m, "elem", <<m.xs[m.op.k]>>)                   \* ls_subscript
  ELSE IF m.op.name = "stride"
  THEN IF m.op.todo = << >>                                  \* ls_subscript
       THEN Done(m, "list", Append(m.op.acc, m.xs[m.op.k]))
       ELSE CallSortPoint([m EXCEPT !.op.acc = Append(@, m.xs[m.op.k]),
                                    !.op.todo = Tail(@)],
                          Head(m.op.todo))
  ELSE IF m.op.name = "between"
  THEN IF m.op.stage = 1 /\ m.op.hi # Size(m.xs)             \* between
       THEN CallSortPoint([m EXCEPT !.op.stage = 2], m.op.hi)
       ELSE IF \A i \in m.op.lo..(m.op.hi - 1) : i \in DOMAIN m.xs
       THEN Done(m, "list", RangeList(m.xs, m.op.lo, m.op.hi))
       ELSE IF m.u = 2 THEN Lost([m EXCEPT !.oob = TRUE], "crash")
       ELSE Done([m EXCEPT !.oob = TRUE], "list",
                 StrayList(m.xs, m.op.lo, m.op.hi))
  ELSE IF m.op.stage = 1                                     \* sort_range
  THEN CallSortPoint([m EXCEPT !.op.stage = 2], m.op.hi)
  ELSE StartWalk(m)

\* The turn of the quickselect loop after uniq_pivots returned q: the side
\* of k that middle replaces, or the return when the pivot landed on k.
SpUniq(q, middle, piv) ==
  IF q.m.st # "ok" THEN Crashed(q.m)
  ELSE IF q.rc < 0 \/ piv = q.m.op.k
  THEN AfterSortPoint(q.m, IF q.rc < 0 THEN -1 ELSE 0)
  ELSE IF piv < q.m.op.k THEN [q.m EXCEPT !.left = middle]
  ELSE [q.m EXCEPT !.right = middle]

\* The turn after insert_pivot returned ins: middle == NULL is checked only
\* when the pivot did not land on k.
SpMiddle(m, ins, piv, l, r) ==
  IF ins.st = "hang"
  THEN Lost([m EXCEPT !.heap = ins.heap, !.root = ins.root], "hang")
  ELSE IF piv # m.op.k /\ ins.node = NULL
  THEN AfterSortPoint([m EXCEPT !.heap = ins.heap, !.root = ins.root], -1)
  ELSE SpUniq(uniq_pivots([m EXCEPT !.heap = ins.heap, !.root = ins.root],
                          l, ins.node, r),
              ins.node, piv)

\* A start node taken from below left when left has a left child.
HintBelow(m) ==
  IF m.heap[m.left].left # NULL THEN m.heap[m.left].left
  ELSE IF m.heap[m.left].right = NULL THEN m.left ELSE m.right

\* The start node insert_pivot is given.
Hint(m) == IF m.heap[m.left].right = NULL THEN m.left ELSE m.right

\* The turn after partition returned p: the new pivot goes into block blk.
SpPivot(m, p, prio, blk) ==
  SpMiddle([m EXCEPT !.xs = p.xs, !.cmp = p.n, !.live = @ \cup {blk},
                     !.freed = @ \ {blk}],
           insert_pivot(p.piv, UNSORTED, m.heap, m.root, Hint(m), prio, blk),
           p.piv, m.left, m.right)

\* One turn of the quickselect loop of sort_point: pick is pick_pivot's
\* choice, prio the new node's rand(), blk the block malloc returns.
SpIterate(m, pick, prio, blk) ==
  SpPivot(m, partition(m.xs, m.heap[m.left].idx + 1, m.heap[m.right].idx,
                       pick, m.fa),
          prio, blk)

\* The flags that follow an insertion sort r of the region (left, right).
Marked(m, r) ==
  SetFlag(SetFlag([m EXCEPT !.xs = r.xs, !.cmp = @ + r.n], m.left,
                  SORTED_LEFT),
          m.right, SORTED_RIGHT)

\* The end of sort_point: insertion sort of the small region, the flags,
\* depivot.
SpFinish(m) ==
  AfterSortPoint(
    depivot(Marked(m, insertion_sort(m.xs, m.heap[m.left].idx + 1,
                                     m.heap[m.right].idx, m.fa)),
            m.left, m.right),
    0)

\* sort_range: current = next; next = next_pivot(current).
SrAdvance(m2, nx, nn) ==
  IF nn = HANG THEN Lost(m2, "hang")
  ELSE [m2 EXCEPT !.left = nx, !.right = nn]

SrNext(m2, nx) ==
  IF m2.st # "ok" THEN Crashed(m2)
  ELSE SrAdvance(m2, nx, next_pivot(m2.heap, nx))

\* sort_range: current is deleted when it is sorted on both sides.
SrDelete(m1) ==
  IF HasRight(m1.heap[m1.left].flags) THEN DeleteM(m1, m1.left) ELSE m1

\* sort_range: the region is sorted by quick_sort, whose return value is not
\* looked at, unless current says it is sorted already.
SrMark(m, q) ==
  IF HasLeft(m.heap[m.left].flags) THEN m
  ELSE Marked(m, [xs |-> q.xs, n |-> q.n])

\* One turn of the loop of sort_range over the region (current, next); q is
\* what quick_sort made of it.
SrRegion(m, q) ==
  IF m.right = NULL THEN Lost(m, "crash")
  ELSE SrNext(SrDelete(SrMark(m, q)), m.right)

\* ls_subscript builds the list from the sorted range.
SrDone(m1) ==
  Done(m1, "list", SliceList(m1.xs, m1.op.arg[1], m1.op.arg[2], m1.op.arg[3]))

\* The end of sort_range and the list ls_subscript builds from it.
SrFinish(m) ==
  SrDone(IF HasLeft(m.heap[m.left].flags) THEN DeleteM(m, m.left) ELSE m)

\* ------------------------------------------------ find_item and callers
\* The descent of find_item from the root, comparing pivots with item.
RECURSIVE FindDescend(_, _, _, _, _, _)
FindDescend(m, item, current, l, r, fuel) ==
  IF current = NULL THEN [m |-> m, left |-> l, right |-> r, rc |-> 0]
  ELSE IF fuel = 0
  THEN [m |-> Fail(m, "hang"), left |-> l, right |-> r, rc |-> -2]
  ELSE IF m.heap[current].idx = -1
  THEN FindDescend(m, item, m.heap[current].right, current, r, fuel - 1)
  ELSE IF m.heap[current].idx = Size(m.xs)
  THEN FindDescend(m, item, m.heap[current].left, l, current, fuel - 1)
  ELSE IF m.cmp + 1 = m.fa
  THEN [m |-> [m EXCEPT !.cmp = @ + 1], left |-> l, right |-> r, rc |-> -2]
  ELSE IF m.xs[m.heap[current].idx] < item
  THEN FindDescend([m EXCEPT !.cmp = @ + 1], item, m.heap[current].right,
                   current, r, fuel - 1)
  ELSE FindDescend([m EXCEPT !.cmp = @ + 1], item, m.heap[current].left,
                   l, current, fuel - 1)

\* The linear scan that ends find_item: the index found, -1 or -2.
RECURSIVE FindScan(_, _, _, _)
FindScan(m, item, k, right_idx) ==
  IF k >= right_idx THEN [m |-> m, r |-> -1]
  ELSE IF k \notin DOMAIN m.xs THEN [m |-> Fail(m, "crash"), r |-> -2]
  ELSE IF m.cmp + 1 = m.fa THEN [m |-> [m EXCEPT !.cmp = @ + 1], r |-> -2]
  ELSE IF item = m.xs[k] THEN [m |-> [m EXCEPT !.cmp = @ + 1], r |-> k]
  ELSE FindScan([m EXCEPT !.cmp = @ + 1], item, k + 1, right_idx)

\* The first loop of ls_count: right moves over the pivots equal to item.
RECURSIVE CountWalk(_, _, _, _, _)
CountWalk(m, item, r, c, fuel) ==
  IF r = NULL \/ r = HANG THEN [m |-> Fail(m, "crash"), right |-> r, rc |-> -1]
  ELSE IF fuel = 0 THEN [m |-> Fail(m, "hang"), right |-> r, rc |-> -1]
  ELSE IF ~(m.heap[r].idx < Size(m.xs) /\ c # 0)
  THEN [m |-> m, right |-> r, rc |-> 0]
  ELSE IF m.heap[r].idx \notin DOMAIN m.xs
  THEN [m |-> Fail(m, "crash"), right |-> r, rc |-> -1]
  ELSE IF m.cmp + 1 = m.fa
  THEN [m |-> [m EXCEPT !.cmp = @ + 1], right |-> r, rc |-> -1]
  ELSE CountWalk([m EXCEPT !.cmp = @ + 1], item, next_pivot(m.heap, r),
                 IF item = m.xs[m.heap[r].idx] THEN 1 ELSE 0, fuel - 1)

\* The second loop of ls_count: count the elements equal to item in [k, hi).
RECURSIVE CountScan(_, _, _, _, _)
CountScan(m, item, k, hi, count) ==
  IF k >= hi THEN [m |-> m, count |-> count]
  ELSE IF k \notin DOMAIN m.xs THEN [m |-> Fail(m, "crash"), count |-> -1]
  ELSE IF m.cmp + 1 = m.fa THEN [m |-> [m EXCEPT !.cmp = @ + 1], count |-> -1]
  ELSE CountScan([m EXCEPT !.cmp = @ + 1], item, k + 1, hi,
                 IF item = m.xs[k] THEN count + 1 ELSE count)

\* ls_count returns what its second loop counted.
CountScanned(c) ==
  IF c.m.st # "ok" THEN Crashed(c.m)
  ELSE IF c.count < 0 THEN Done(c.m, "error", << >>)
  ELSE Done(c.m, "count", <<c.count>>)

\* ls_count after its first loop ended in w.
CountWalked(w, item, k) ==
  IF w.m.st # "ok" THEN Crashed(w.m)
  ELSE IF w.rc < 0 THEN Done(w.m, "error", << >>)
  ELSE CountScanned(CountScan(w.m, item, k + 1, w.m.heap[w.right].idx, 1))

\* ls_count after bound_idx(k) returned b.
CountBounded(m, item, k, b) ==
  IF b.left = HANG THEN Lost(m, "hang")
  ELSE IF b.right = NULL /\ b.left = NULL THEN Lost(m, "crash")
  ELSE CountWalked(CountWalk(m, item,
                             IF b.right = NULL THEN next_pivot(m.heap, b.left)
                             ELSE b.right,
                             1, Fuel),
                   item, k)

\* ls_count once find_item has returned the first index k >= 0.
CountFrom(m, item, k) == CountBounded(m, item, k, bound_idx(k, m.heap, m.root))

\* What ls_index, ls_contains and ls_count do with find_item's result r.
AfterFind(m, r) ==
  IF m.st # "ok" THEN Crashed(m)
  ELSE IF r = -2 THEN Done(m, "error", << >>)
  ELSE IF m.op.name = "index"
  THEN Done(m, IF r = -1 THEN "ValueError" ELSE "index",
            IF r = -1 THEN << >> ELSE <<r>>)
  ELSE IF m.op.name = "contains"
  THEN Done(m, "bool", <<IF r = -1 THEN 0 ELSE 1>>)
  ELSE IF r = -1 THEN Done(m, "count", <<0>>)
  ELSE CountFrom(m, m.op.arg[1], r)

\* find_item returns what its scan f found.
FiScanned(f) == AfterFind(f.m, f.r)

\* find_item's bounds of the scan, taken from left and right.
ScanFrom(m, l) == m.heap[l].idx + 1
ScanTo(m, r) == IF m.heap[r].idx = Size(m.xs) THEN Size(m.xs)
                ELSE m.heap[r].idx + 1

\* find_item after its descent ended in d.
FiDescended(d, item) ==
  IF d.m.st # "ok" THEN Crashed(d.m)
  ELSE IF d.rc < 0 THEN AfterFind(d.m, -2)
  ELSE IF d.left = NULL \/ d.right = NULL THEN Lost(d.m, "crash")
  ELSE IF HasLeft(d.m.heap[d.left].flags)
  THEN FiScanned(FindScan(d.m, item, ScanFrom(d.m, d.left),
                          ScanTo(d.m, d.right)))
  ELSE [d.m EXCEPT !.pc = "fi_loop", !.left = d.left, !.right = d.right]

\* find_item(ls, item) up to its quickselect loop.
FindStart(m) ==
  FiDescended(FindDescend(m, m.op.arg[1], m.root, NULL, NULL, Fuel),
              m.op.arg[1])

\* The turn of find_item's loop after uniq_pivots returned q: a failure of
\* uniq_pivots is returned as -1.
FiUniq(q, middle, lt) ==
  IF q.m.st # "ok" THEN Crashed(q.m)
  ELSE IF q.rc < 0 THEN AfterFind(q.m, -1)
  ELSE IF lt = 1 THEN [q.m EXCEPT !.left = middle]
  ELSE [q.m EXCEPT !.right = middle]

\* The turn after insert_pivot returned ins.
FiMiddle(m, ins, lt, l, r) ==
  IF ins.st = "hang"
  THEN Lost([m EXCEPT !.heap = ins.heap, !.root = ins.root], "hang")
  ELSE IF ins.node = NULL
  THEN AfterFind([m EXCEPT !.heap = ins.heap, !.root = ins.root], -2)
  ELSE FiUniq(uniq_pivots([m EXCEPT !.heap = ins.heap, !.root = ins.root],
                          l, ins.node, r),
              ins.node, lt)

\* The turn after IFLT(ob_item[piv_idx], item) answered lt.
FiCompared(m0, p, lt, prio, blk) ==
  IF lt = 2 THEN Lost(m0, "crash")
  ELSE IF lt < 0 THEN AfterFind(m0, -2)
  ELSE FiMiddle([m0 EXCEPT !.live = @ \cup {blk}, !.freed = @ \ {blk}],
                insert_pivot(p.piv, UNSORTED, m0.heap, m0.root, Hint(m0), prio,
                             blk),
                lt, m0.left, m0.right)

\* The turn after partition returned p; ob_item[-1] is read when it failed.
FiPivot(m, p, prio, blk) ==
  IF p.piv \in DOMAIN p.xs
  THEN FiCompared([m EXCEPT !.xs = p.xs, !.cmp = p.n + 1], p,
                  ISLT(p.xs[p.piv], m.op.arg[1], p.n + 1, m.fa), prio, blk)
  ELSE FiCompared([m EXCEPT !.xs = p.xs, !.cmp = p.n, !.ubseen = TRUE], p,
                  m.u, prio, blk)

\* One turn of the quickselect loop of find_item.
FiIterate(m, pick, prio, blk) ==
  FiPivot(m, partition(m.xs, m.heap[m.left].idx + 1, m.heap[m.right].idx,
                       pick, m.fa),
          prio, blk)

\* find_item after depivot: the scan of [from, to).
FiDepivoted(m3, item, from, to) ==
  IF m3.st # "ok" THEN Crashed(m3)
  ELSE FiScanned(FindScan(m3, item, from, to))

\* The end of find_item: insertion sort, the flags, depivot, the scan.
FiFinish(m) ==
  FiDepivoted(depivot(Marked(m, insertion_sort(m.xs, m.heap[m.left].idx + 1,
                                               m.heap[m.right].idx, m.fa)),
                      m.left, m.right),
              m.op.arg[1], ScanFrom(m, m.left), ScanTo(m, m.right))

\* ------------------------------------------------------------ the state
VARIABLES xs,      \* ls->xs->ob_item, positions 0..N-1
          orig,    \* sorted(A_original): the elements the object was built
                   \* from, in nondecreasing order
          heap,    \* the PivotNode blocks
          root,    \* ls->root
          live,    \* blocks allocated and not freed
          freed,   \* free blocks that a pointer still refers to
          pc,      \* "idle", inside a loop, "done" or "crashed"
          op,      \* the public operation under way
          left,    \* the local `left` (`current` in sort_range)
          right,   \* the local `right` (`next` in sort_range)
          result,  \* what the operation returned
          st,      \* "ok", "crash" or "hang"
          fault,   \* a comparator call has failed, or the program has run
                   \* into undefined behaviour, since construction
          since,   \* public operations begun since the first fault
          fails,   \* comparator calls that have failed
          mayFail, \* the elements' comparison methods can raise
          prev,    \* <<k, element>> when the operation that returned last
                   \* was a get(k) that gave an element, else << >>
          gets     \* the indices get was called with, as long as the caller
                   \* has done nothing but call get once for an index in
                   \* range; Mixed after that

vars == <<xs, orig, heap, root, live, freed, pc, op, left, right, result,
          st, fault, since, fails, mayFail, prev,
          gets>>

N == Size(xs)

\* The state as a machine record for a step whose fa-th comparator call fails.
M(fa, u) ==
  [xs |-> xs, heap |-> heap, root |-> root, live |-> live, freed |-> freed,
   pc |-> pc, op |-> op, left |-> left, right |-> right, result |-> result,
   st |-> st, since |-> since, fa |-> fa, u |-> u, cmp |-> 0,
   ubseen |-> FALSE, oob |-> FALSE]

\* A local refers to a block that has been freed.
Dangling(m) == {m.left, m.right} \ ({NULL} \cup m.live) # {}

\* The comparator call that was to fail has been made.
Failed(m) == m.fa >= 1 /\ m.fa <= m.cmp

\* The caller's calls stopped being one get for each index.
Mixed == {-1}

\* The index get(k) looks up.
Wrapped(k) == IF k < 0 THEN k + N ELSE k

\* gets once the operation of m has begun.
Asked(m) ==
  IF m.op.name = "get" /\ gets # Mixed /\ Wrapped(m.op.arg[1]) \in 0..(N - 1)
     /\ Wrapped(m.op.arg[1]) \notin gets
  THEN gets \cup {Wrapped(m.op.arg[1])}
  ELSE Mixed

Store(m) ==
  /\ xs' = m.xs
  /\ heap' = m.heap
  /\ root' = m.root
  /\ live' = m.live
  /\ freed' = m.freed
  /\ pc' = m.pc
  /\ op' = m.op
  /\ left' = m.left
  /\ right' = m.right
  /\ result' = m.result
  /\ st' = m.st
  /\ fault' = (fault \/ Failed(m) \/ m.ubseen \/ Dangling(m))
  /\ since' = m.since
  /\ fails' = (IF Failed(m) THEN fails + 1 ELSE fails)
  /\ orig' = orig
  /\ mayFail' = mayFail
  /\ prev' = << >>
  /\ gets' = (IF pc = "idle" THEN Asked(m) ELSE gets)

Commit(m) == Store(IF m.pc = "crashed" THEN m ELSE Canon(m))

\* The comparator calls of a step that makes n of them, one of which may fail.
FailAt(n) == IF mayFail /\ fails < MaxFail THEN 0..n ELSE {0}

\* What undefined behaviour does in a step: it can only be met after a fault,
\* after a failure in the step itself, or with a lower bound below 0.
UBFrom(fa, lo) == IF fault \/ fa > 0 \/ lo < 0 THEN {-1, 0, 1, 2} ELSE {2}

UBOut(fa) == UBFrom(fa, op.lo)

\* The step ended in r; the choice of u counts only if it was looked at.
Attempt(r) == (r.u = 2 \/ r.ubseen \/ r.oob) /\ Commit(r)

\* A step F taken with every comparator call that can fail failing, and with
\* every outcome of the undefined behaviour it runs into.
Faulty(F(_)) ==
  \E fa \in FailAt(F(M(0, 2)).cmp) : \E u \in UBOut(fa) : Attempt(F(M(fa, u)))

\* PyMem_Malloc: a block freed earlier, or the first block never handed out.
MallocChoices ==
  LET clean == Handles \ (live \cup freed) IN
  freed \cup (IF clean = {} THEN {}
              ELSE {CHOOSE b \in clean : \A c \in clean : b <= c})

\* The object once both sentinels are in the tree.
Built3(a, i2) ==
  Canon([xs |-> a, heap |-> i2.heap, root |-> i2.root, live |-> {1, 2},
         freed |-> {}, pc |-> "idle", op |-> NoOp, left |-> NULL,
         right |-> NULL, result |-> NoResult, st |-> "ok", since |-> 0,
         fa |-> 0, u |-> 2, cmp |-> 0, ubseen |-> FALSE, oob |-> FALSE])

\* LS_init: the sentinel N joins the tree newLSObject made.
Built2(a, i1, p2) ==
  Built3(a, insert_pivot(Size(a), UNSORTED, i1.heap, i1.root, i1.root, p2, 2))

\* newLSObject and LS_init: the list, and the sentinels -1 and N.
Built(a, p1, p2) ==
  Built2(a, insert_pivot(-1, UNSORTED, [n \in Handles |-> ZeroNode], NULL,
                         NULL, p1, 1),
         p2)

\* sorted(a): the nondecreasing arrangement of the elements of a.
Count(a, v) == Cardinality({i \in DOMAIN a : a[i] = v})

SortedOf(a) ==
  CHOOSE s \in [DOMAIN a -> Vals] :
    /\ \A i, j \in DOMAIN a : i < j => s[i] <= s[j]
    /\ \A v \in Vals : Count(s, v) = Count(a, v)

\* The state after construction m of an object over the list a.
Starts(m, a, canFail) ==
  /\ xs = m.xs /\ orig = SortedOf(a) /\ heap = m.heap /\ root = m.root
  /\ live = m.live /\ freed = m.freed /\ pc = m.pc /\ op = m.op
  /\ left = m.left /\ right = m.right /\ result = m.result
  /\ st = m.st /\ fault = FALSE /\ since = 0 /\ fails = 0
  /\ mayFail = canFail /\ prev = << >> /\ gets = {}

InitWith(canFail) ==
  \E n \in 0..(IF canFail THEN FailLen ELSE MaxLen) :
    \E a \in [0..(n - 1) -> Vals] : \E p1, p2 \in Prios :
      Starts(Built(a, p1, p2), a, canFail)

\* The object built over elements whose comparison methods can raise.
Init == InitWith(TRUE)

\* The object built over elements whose comparisons never raise.
InitTotal == InitWith(FALSE)

\* The object built over a run of MaxLen equal elements and one greater
\* element, in any order; the comparisons never raise.
InitEqual ==
  \E a \in [0..MaxLen -> {1, MaxVal}] : \E p1, p2 \in Prios :
    /\ Count(a, 1) = MaxLen
    /\ Starts(Built(a, p1, p2), a, FALSE)

\* A public operation may begin.
CanBegin == pc = "idle" /\ fails = 0 /\ (fault => since < MaxAfter)

Started(m, name, arg) ==
  [m EXCEPT !.op = [NoOp EXCEPT !.name = name, !.arg = arg],
            !.result = NoResult,
            !.since = IF fault THEN @ + 1 ELSE @]

Begin(name, arg) == Started(M(0, 2), name, arg)

BeginU(name, arg, u) == Started(M(0, u), name, arg)

\* ls_subscript taking every integer as an index, modulo the length.
SubscriptWrapping(m, k) ==
  IF Size(m.xs) = 0 THEN Done(m, "IndexError", << >>)
  ELSE CallSortPoint(m, k % Size(m.xs))

\* ls_subscript with an integer index.
Subscript(m, k) ==
  IF k < 0 \/ k >= Size(m.xs) THEN Done(m, "IndexError", << >>)
  ELSE CallSortPoint(m, k)

Get(k) ==
  /\ CanBegin
  /\ Commit(Subscript(Begin("get", <<k>>), IF k < 0 THEN k + N ELSE k))

\* The length PySlice_GetIndicesEx computes for normalised start, stop, step.
SliceLength(start, stop, step) ==
  IF step > 0
  THEN (IF start < stop THEN (stop - start - 1) \div step + 1 ELSE 0)
  ELSE (IF stop < start THEN (start - stop - 1) \div (-step) + 1 ELSE 0)

\* The indices start, start + step, ... of a slice of len elements.
Indices(start, step, len) == [j \in 1..len |-> start + (j - 1) * step]

\* The contiguous path: sort_range(left, right) begins with sort_point(left).
Contig(m, lo, hi) ==
  CallSortPoint([m EXCEPT !.op.lo = lo, !.op.hi = hi, !.op.stage = 1], lo)

\* The stride path: one sort_point for each index.
Stride(m, idxs) == CallSortPoint([m EXCEPT !.op.todo = Tail(idxs)], Head(idxs))

Slice(start, stop, step, len) ==
  IF len <= 0 THEN Done(Begin("contig", <<start, step, len>>), "list", << >>)
  ELSE IF -CONTIG_THRESH <= step /\ step <= CONTIG_THRESH
  THEN Contig(Begin("contig", <<start, step, len>>),
              (IF start < stop THEN start ELSE stop)
                + (IF step < 0 THEN 1 ELSE 0),
              (IF start < stop THEN stop ELSE start)
                + (IF step < 0 THEN 1 ELSE 0))
  ELSE Stride(Begin("stride", <<start, step, len>>),
              Indices(start, step, len))

\* ls_subscript with a slice, its indices as PySlice_GetIndicesEx gives them.
GetSlice(start, stop, step) ==
  /\ CanBegin
  /\ step # 0
  /\ IF step > 0 THEN start \in 0..N /\ stop \in 0..N
     ELSE start \in -1..(N - 1) /\ stop \in -1..(N - 1)
  /\ Commit(Slice(start, stop, step, SliceLength(start, stop, step)))

\* between: a negative bound has the length added, a bound beyond the length
\* becomes the length.
Clamp(a) == IF a < 0 THEN a + N ELSE IF a > N THEN N ELSE a

\* between from its test for an empty range on.
Range(m, lo, hi) ==
  IF lo >= hi \/ hi <= 0
  THEN Done([m EXCEPT !.op.lo = lo, !.op.hi = hi], "list", << >>)
  ELSE IF lo # 0
  THEN CallSortPoint([m EXCEPT !.op.lo = lo, !.op.hi = hi, !.op.stage = 1], lo)
  ELSE AfterSortPoint([m EXCEPT !.op.lo = lo, !.op.hi = hi, !.op.stage = 1], 0)

\* between(left, right)
Between(a, b) ==
  /\ CanBegin
  /\ \E u \in UBFrom(0, Clamp(a)) :
       Attempt(Range(BeginU("between", <<Clamp(a), Clamp(b)>>, u),
                     Clamp(a), Clamp(b)))

\* ls_index, ls_contains, ls_count
Find(name, x) ==
  /\ CanBegin
  /\ Faulty(LAMBDA m : FindStart(Started(m, name, <<x>>)))

LoopOn == heap[left].idx + 1 + SORT_THRESH <= heap[right].idx

\* sort_point: one partition step of the quickselect loop.
SortPointStep ==
  /\ pc = "sp_loop"
  /\ LoopOn
  /\ \E pick \in (heap[left].idx + 1)..(heap[right].idx - 1) :
       \E prio \in Prios : \E blk \in MallocChoices :
         Faulty(LAMBDA m : SpIterate(m, pick, prio, blk))

\* sort_point: the loop is over.
SortPointFinish ==
  /\ pc = "sp_loop"
  /\ ~LoopOn
  /\ Faulty(LAMBDA m : SpFinish(m))

\* find_item: one partition step of its loop.
FindItemStep ==
  /\ pc = "fi_loop"
  /\ LoopOn
  /\ \E pick \in (heap[left].idx + 1)..(heap[right].idx - 1) :
       \E prio \in Prios : \E blk \in MallocChoices :
         Faulty(LAMBDA m : FiIterate(m, pick, prio, blk))

\* find_item: the loop is over.
FindItemFinish ==
  /\ pc = "fi_loop"
  /\ ~LoopOn
  /\ Faulty(LAMBDA m : FiFinish(m))

\* What quick_sort can make of the region (current, next) when its fa-th
\* comparator call fails; it is not called on a region marked sorted.
Sorts(fa) ==
  IF HasLeft(heap[left].flags) \/ right = NULL
  THEN {[xs |-> xs, rc |-> 0, n |-> 0]}
  ELSE quick_sort(xs, heap[left].idx + 1, heap[right].idx, fa)

\* The most comparator calls any of the runs Q makes.
MaxCalls(Q) == CHOOSE n \in {q.n : q \in Q} : \A q \in Q : q.n <= n

\* sort_range: one region of the walk.
SortRangeStep ==
  /\ pc = "sr_walk"
  /\ heap[left].idx < op.hi
  /\ \E fa \in FailAt(MaxCalls(Sorts(0))) : \E q \in Sorts(fa) :
       \E u \in UBOut(fa) : Attempt(SrRegion(M(fa, u), q))

\* sort_range: the walk is over; ls_subscript builds the list.
SortRangeFinish ==
  /\ pc = "sr_walk"
  /\ ~(heap[left].idx < op.hi)
  /\ Faulty(LAMBDA m : SrFinish(m))

\* The operation has returned; the object waits for the next call.
\* The caller has the result; the object waits for the next operation.
Return ==
  /\ pc = "done"
  /\ pc' = "idle"
  /\ op' = NoOp
  /\ result' = NoResult
  /\ prev' = (IF op.name = "get" /\ result.kind = "elem"
              THEN <<op.k, result.val[1]>> ELSE << >>)
  /\ UNCHANGED <<xs, orig, heap, root, live, freed, left, right, st, fault,
                 since, fails, mayFail, gets>>

Next ==
  \/ \E k \in (-MaxLen - 1)..MaxLen : Get(k)
  \/ \E start, stop \in -1..MaxLen : \E step \in {-2, -1, 1, 2} :
       GetSlice(start, stop, step)
  \/ \E a, b \in (-MaxLen - 1)..(MaxLen + 1) : Between(a, b)
  \/ \E x \in Vals : \E name \in {"index", "contains", "count"} : Find(name, x)
  \/ SortPointStep
  \/ SortPointFinish
  \/ FindItemStep
  \/ FindItemFinish
  \/ SortRangeStep
  \/ SortRangeFinish
  \/ Return

Spec == Init /\ [][Next]_vars

SpecTotal == InitTotal /\ [][Next]_vars

SpecEqual == InitEqual /\ [][Next]_vars

\* ------------------------------------------------------------ properties
\* N, the length of the list the object was built from.
Length == Size(orig)

\* The index a caller's k stands for.
IndexOf(k) == IF k < 0 THEN k + Length ELSE k

\* The operation under way has returned to its caller, or has cost the
\* process.
Ended == pc \in {"done", "crashed"}

\* The pivots of T: the nodes the child pointers lead to from the root.
RECURSIVE Under(_, _)
Under(h, S) ==
  LET T == (S \cup UNION {{h[x].left, h[x].right} : x \in S}) \ {NULL}
  IN IF T = S THEN S ELSE Under(h, T)

Pivots == IF root = NULL THEN {} ELSE Under(heap, {root})

\* C1: under a comparator that never fails, after any operations, get(k)
\* with k in [-N, N) returns the element sorted(A_original)[k], a negative k
\* standing for k + N.
C1_GetIsOrderStatistic ==
  (Ended /\ op.name = "get" /\ IndexOf(op.arg[1]) \in 0..(Length - 1))
    => /\ pc = "done"
       /\ result = [kind |-> "elem", val |-> <<orig[IndexOf(op.arg[1])]>>]

\* The elements sorted(A_original)[i] for i = start, start + step, ...
SortedSlice(start, step, len) ==
  [j \in 1..len |-> orig[start + (j - 1) * step]]

\* C2: under a comparator that never fails, after any operations, a slice
\* with a non-empty index sequence returns sorted(A_original)[i] for
\* i = start, start + step, ... in that order, on the contiguous path (which
\* leaves A[lo..hi) equal to sorted(A_original)[lo..hi)) and on the stride
\* path.
C2_SliceIsSortedSlice ==
  (Ended /\ op.name \in {"contig", "stride"} /\ op.arg[3] > 0)
    => /\ pc = "done"
       /\ result = [kind |-> "list",
                    val |-> SortedSlice(op.arg[1], op.arg[2], op.arg[3])]
       /\ op.name = "contig" => \A i \in op.lo..(op.hi - 1) : xs[i] = orig[i]

\* Some element of the list equals x.
Present(x) == \E i \in DOMAIN orig : orig[i] = x

\* The smallest index k with sorted(A_original)[k] = x.
First(x) == CHOOSE k \in DOMAIN orig : orig[k] = x /\ \A j \in 0..(k - 1) : orig[j] # x

\* C3: under a comparator that never fails, after any operations,
\* index_of(x) returns the smallest k with sorted(A_original)[k] = x and
\* contains(x) is true when some element equals x; index_of raises NotFound
\* and contains is false exactly when no element equals x.
C3_FindIsFirstIndex ==
  (Ended /\ op.name \in {"index", "contains"})
    => /\ pc = "done"
       /\ result = (IF op.name = "contains"
                    THEN [kind |-> "bool",
                          val |-> <<IF Present(op.arg[1]) THEN 1 ELSE 0>>]
                    ELSE IF Present(op.arg[1])
                    THEN [kind |-> "index", val |-> <<First(op.arg[1])>>]
                    ELSE [kind |-> "ValueError", val |-> << >>])

\* C4: under a comparator that never fails, after any operations,
\* count_of(x) returns the number of indices i with A_original[i] = x.
C4_CountIsMultiplicity ==
  (Ended /\ op.name = "count")
    => /\ pc = "done"
       /\ result = [kind |-> "count", val |-> <<Count(orig, op.arg[1])>>]

\* The number of elements of the list s that equal v.
Times(s, v) == Cardinality({j \in DOMAIN s : s[j] = v})

\* C5: under a comparator that never fails, after any operations,
\* between(a, b) with 0 <= a < b <= N returns a list whose elements are, as a
\* multiset, sorted(A_original)[a..b).
C5_BetweenIsSortedRange ==
  (Ended /\ op.name = "between"
     /\ 0 <= op.arg[1] /\ op.arg[1] < op.arg[2] /\ op.arg[2] <= Length)
    => /\ pc = "done"
       /\ result.kind = "list"
       /\ \A v \in Vals :
            Times(result.val, v)
              = Cardinality({i \in op.arg[1]..(op.arg[2] - 1) : orig[i] = v})

\* The object is between two public operations.
AtRest == pc \in {"idle", "done"}

\* The pivots whose idx is a position of the array.
Inner == {p \in Pivots : heap[p].idx \in 0..(N - 1)}

\* C6: between public operations, for every pivot p of T with p.idx in
\* [0, N-1], A[p.idx] is the p.idx-th order statistic: it equals
\* sorted(A_original)[p.idx], nothing before it is greater and nothing after
\* it is smaller.
C6_PivotsAreOrderStatistics ==
  AtRest =>
    \A p \in Inner :
      /\ xs[heap[p].idx] = orig[heap[p].idx]
      /\ \A i \in 0..(N - 1) :
           /\ i < heap[p].idx => xs[i] <= xs[heap[p].idx]
           /\ i > heap[p].idx => xs[i] >= xs[heap[p].idx]

\* The in-order successors and predecessors of pivot p in T (one of each in
\* a well-formed tree, none for the last and the first pivot).
Successors(p) ==
  {q \in Pivots : /\ heap[q].idx > heap[p].idx
                  /\ \A r \in Pivots : ~(/\ heap[p].idx < heap[r].idx
                                       /\ heap[r].idx < heap[q].idx)}

Predecessors(q) == {p \in Pivots : q \in Successors(p)}

\* A[lo .. hi] is nondecreasing (as far as it lies in the array).
Nondecreasing(lo, hi) ==
  \A i, j \in lo..hi :
    (i < j /\ i \in DOMAIN xs /\ j \in DOMAIN xs) => xs[i] <= xs[j]

\* C7: between public operations, a pivot p with SORTED_LEFT has an in-order
\* successor q, q has SORTED_RIGHT and A[p.idx+1 .. q.idx] is nondecreasing;
\* and a pivot with SORTED_RIGHT has an in-order predecessor with SORTED_LEFT.
C7_FlagsArePaired ==
  AtRest =>
    \A p \in Pivots :
      /\ HasLeft(heap[p].flags) =>
           /\ Successors(p) # {}
           /\ \A q \in Successors(p) :
                /\ HasRight(heap[q].flags)
                /\ Nondecreasing(heap[p].idx + 1, heap[q].idx)
      /\ HasRight(heap[p].flags) =>
           /\ Predecessors(p) # {}
           /\ \A q \in Predecessors(p) : HasLeft(heap[q].flags)

\* The pivots of T with idx i.
PivotsAt(i) == {p \in Pivots : heap[p].idx = i}

\* C8: after construction and after every public operation, whatever its
\* outcome, T holds exactly one pivot with idx -1 and exactly one with idx N.
C8_SentinelsStay ==
  AtRest => /\ Cardinality(PivotsAt(-1)) = 1
            /\ Cardinality(PivotsAt(N)) = 1

\* The nodes of the subtree of T below the child pointer c.
Subtree(c) == IF c = NULL THEN {} ELSE Under(heap, {c})

\* C9: after every insert_pivot and delete_node and between public
\* operations T is a well-formed treap: idx values pairwise distinct and
\* BST-ordered over whole subtrees, no child's priority above its parent's,
\* the root without a parent, and each child's parent link pointing to the
\* node that holds it.
C9_TreapWellFormed ==
  pc # "crashed" =>
    /\ \A p, q \in Pivots : p # q => heap[p].idx # heap[q].idx
    /\ \A p \in Pivots :
         /\ \A q \in Subtree(heap[p].left) : heap[q].idx < heap[p].idx
         /\ \A q \in Subtree(heap[p].right) : heap[q].idx > heap[p].idx
         /\ \A c \in {heap[p].left, heap[p].right} \ {NULL} :
              /\ heap[c].priority <= heap[p].priority
              /\ heap[c].parent = p
    /\ root # NULL /\ heap[root].parent = NULL

\* C10: in every state of a running process, also after an operation in
\* which a comparator call failed, A has length N and is a permutation of
\* A_original.
C10_ArrayIsPermutation ==
  pc # "crashed" =>
    /\ DOMAIN xs = DOMAIN orig
    /\ \A v \in Vals : Count(xs, v) = Count(orig, v)

\* An operation in which a comparison failed has moved elements.
C10_Witness ==
  /\ pc = "done" /\ fails > 0
  /\ \E i \in DOMAIN xs : xs[i] # orig[i]

\* The step that begins a get(k) right after a get(k) gave an element.
RepeatsGet ==
  /\ pc = "idle" /\ prev # << >>
  /\ op'.name = "get" /\ IndexOf(op'.arg[1]) = prev[1]

\* C11: get(k) called twice in a row returns the same element the second
\* time, and the second call returns at once (it enters no loop, so it makes
\* no comparator call) and leaves A and T as the first call left them.
C11_SecondGetIsFree ==
  [][RepeatsGet => /\ pc' = "done"
                   /\ result' = [kind |-> "elem", val |-> <<prev[2]>>]
                   /\ xs' = xs /\ heap' = heap /\ root' = root]_vars

\* C12: when get(k) is issued once for each k in [0, N), in any order, and
\* nothing else, every call returns and the array after the last one equals
\* sorted(A_original).
C12_AllGetsSortTheArray ==
  /\ gets # Mixed => pc # "crashed"
  /\ (AtRest /\ gets = 0..(Length - 1)) => xs = orig

\* The step that begins a get(k) with k outside [-N, N).
GetsOutside ==
  /\ pc = "idle" /\ op'.name = "get"
  /\ IndexOf(op'.arg[1]) \notin 0..(Length - 1)

\* C13: get(k) with k outside [-N, N) is refused with an index error before
\* anything changes: it returns at once (sort_point is not called) and A and
\* T are as they were.
C13_GetOutsideIsRefused ==
  [][GetsOutside => /\ pc' = "done"
                    /\ result' = [kind |-> "IndexError", val |-> << >>]
                    /\ xs' = xs /\ heap' = heap /\ root' = root]_vars

\* A get outside the range has been refused by an object that holds pivots.
C13_Witness ==
  /\ pc = "done" /\ op.name = "get" /\ result.kind = "IndexError"
  /\ Inner # {}

\* C14: between(a, b), for all integers a and b, calls sort_point only with
\* arguments in [0, N] and reads only array positions in [0, N): it does not
\* end the process, and no element of the list it returns comes from outside
\* the array.
C14_BetweenStaysInside ==
  op.name = "between" =>
    /\ pc # "crashed"
    /\ pc = "sp_loop" => op.k \in 0..Length
    /\ pc = "done" => \A j \in DOMAIN result.val : result.val[j] # Stray

\* C15: a public operation during which a comparator call failed reports the
\* failure to its caller; it returns no element, list, index, count or
\* boolean.
C15_FailureIsReported ==
  (pc = "done" /\ fails > 0) => result.kind = "error"

\* C16: after a public operation during which a comparator call failed the
\* invariants of the data model still hold: the sentinels -1 and N are each
\* present once, the pivots' idx are pairwise distinct and within -1..N,
\* every pivot is an order statistic, and the flags are paired.
C16_FailureKeepsInvariants ==
  (AtRest /\ fails > 0) =>
    /\ Cardinality(PivotsAt(-1)) = 1 /\ Cardinality(PivotsAt(N)) = 1
    /\ \A p, q \in Pivots : p # q => heap[p].idx # heap[q].idx
    /\ \A p \in Pivots : heap[p].idx \in -1..N
    /\ \A p \in Inner : xs[heap[p].idx] = orig[heap[p].idx]
    /\ \A p \in Pivots :
         /\ HasLeft(heap[p].flags) =>
              \E q \in Successors(p) : HasRight(heap[q].flags)
         /\ HasRight(heap[p].flags) =>
              \E q \in Predecessors(p) : HasLeft(heap[q].flags)

\* A[lo .. hi) is partitioned: some position p has only smaller elements
\* before it and none smaller after it.
Partitioned(a, lo, hi) ==
  \E p \in lo..(hi - 1) :
    /\ \A i \in lo..(p - 1) : a[i] < a[p]
    /\ \A i \in (p + 1)..(hi - 1) : a[i] >= a[p]

\* A turn of a quickselect loop in which a comparator call fails (and which
\* the process survives).
FailingTurn ==
  /\ pc \in {"sp_loop", "fi_loop"} /\ LoopOn
  /\ fails' > fails /\ pc' # "crashed"

\* C17: partition is atomic with respect to comparator failure: after a
\* turn of the loop in which a comparison failed, the region is either as it
\* was before partition began or fully partitioned.
C17_PartitionIsAtomic ==
  [][FailingTurn => \/ xs' = xs
                    \/ Partitioned(xs', heap[left].idx + 1, heap[right].idx)]_vars

\* A step of sort_range's walk in which a comparator call fails: quick_sort
\* is at work on the region between current and next.
FailingRegion ==
  /\ pc = "sr_walk" /\ fails' > fails /\ pc' # "crashed"

\* C18: when a comparator call fails while sort_range sorts the region
\* between the adjacent pivots cur and nxt, the region is not marked sorted:
\* afterwards cur lacks SORTED_LEFT and nxt lacks SORTED_RIGHT.
C18_FailedRegionIsUnmarked ==
  [][FailingRegion =>
       \A p \in Pivots' :
         /\ heap'[p].idx = heap[left].idx => ~HasLeft(heap'[p].flags)
         /\ heap'[p].idx = heap[right].idx => ~HasRight(heap'[p].flags)]_vars

\* C19: find_item keeps a comparator failure apart from a clean not-found:
\* index_of, contains and count_of report an error whenever a comparator
\* call failed during them, so contains never answers false, index_of never
\* raises NotFound and count_of never answers 0 because of a failed
\* comparison.
C19_FailedFindIsAnError ==
  (pc = "done" /\ op.name \in {"index", "contains", "count"} /\ fails > 0)
    => result.kind = "error"

\* C20: throughout the quickselect loops of sort_point and find_item the
\* locals left and right are pivots that are in T, right being the in-order
\* successor of left: a pivot that uniq_pivots deleted is not used again.
C20_LocalsAreInTheTree ==
  pc \in {"sp_loop", "fi_loop"} =>
    /\ {left, right} \subseteq live \cap Pivots
    /\ right \in Successors(left)


\* p is what a partition of a[lo .. hi) may return when every comparison
\* succeeds: the pivot index lies in [lo, hi), smaller elements come before
\* it and the others after it, a[lo .. hi) holds the same elements as before
\* and nothing outside it has changed.
PartitionPost(a, lo, hi, p) ==
  /\ lo <= p.piv /\ p.piv < hi
  /\ DOMAIN p.xs = DOMAIN a
  /\ \A i \in lo..(p.piv - 1) : p.xs[i] < p.xs[p.piv]
  /\ \A i \in (p.piv + 1)..(hi - 1) : p.xs[i] >= p.xs[p.piv]
  /\ \A v \in Vals : Cardinality({i \in lo..(hi - 1) : p.xs[i] = v})
                       = Cardinality({i \in lo..(hi - 1) : a[i] = v})
  /\ \A i \in DOMAIN a : (i < lo \/ i >= hi) => p.xs[i] = a[i]

\* C21: for all lo < hi and every choice of pick_pivot, a partition(A, lo,
\* hi) whose comparisons all succeed returns piv in [lo, hi) with every
\* element of [lo, piv) below A[piv] and every element of (piv, hi) at least
\* A[piv], permutes only the positions in [lo, hi) and leaves the others
\* unchanged.
C21_PartitionSplits ==
  pc # "crashed" =>
    \A lo, hi \in 0..N :
      lo < hi =>
        \A pick \in lo..(hi - 1) :
          PartitionPost(xs, lo, hi, partition(xs, lo, hi, pick, 0))

\* A partition of the whole array that moves elements and leaves some on
\* both sides of the pivot.
C21_Witness ==
  /\ pc = "sp_loop" /\ N = 3
  /\ \E pick \in 0..2 :
       /\ partition(xs, 0, 3, pick, 0).piv = 1
       /\ partition(xs, 0, 3, pick, 0).xs # xs

\* The nodes of the tree of heap h under root r.
PivotsOf(h, r) == IF r = NULL THEN {} ELSE Under(h, {r})

\* The tree of heap h under root r is a well-formed treap that holds the two
\* sentinels.
WellFormedTree(h, r) ==
  /\ r # NULL /\ h[r].parent = NULL
  /\ \A p, q \in PivotsOf(h, r) : p # q => h[p].idx # h[q].idx
  /\ \A p \in PivotsOf(h, r) :
       /\ \A q \in PivotsOf(h, h[p].left) : h[q].idx < h[p].idx
       /\ \A q \in PivotsOf(h, h[p].right) : h[q].idx > h[p].idx
       /\ \A c \in {h[p].left, h[p].right} \ {NULL} :
            /\ h[c].priority <= h[p].priority
            /\ h[c].parent = p
  /\ \E p \in PivotsOf(h, r) : h[p].idx = -1
  /\ \E p \in PivotsOf(h, r) : h[p].idx = N

\* No pivot of T has its idx in lo..hi.
NoPivotIn(lo, hi) == \A p \in Pivots : heap[p].idx \notin lo..hi

\* b is what bound(k) has to return when no pivot sits on k or when the
\* caller does not look at `right`.
BoundPost(k, b) ==
  /\ b.left \in Pivots
  /\ heap[b.left].idx <= k
  /\ NoPivotIn(heap[b.left].idx + 1, k)
  /\ heap[b.left].idx < k =>
       /\ b.right \in Pivots
       /\ heap[b.right].idx > k
       /\ NoPivotIn(heap[b.left].idx + 1, heap[b.right].idx - 1)

\* C22: for every well-formed T and every k in [-1, N], bound(k) returns as
\* `left` the pivot with the greatest idx <= k and, whenever left.idx < k, as
\* `right` the pivot with the least idx > k, the in-order successor of left.
C22_BoundIsTight ==
  (pc # "crashed" /\ WellFormedTree(heap, root)) =>
    \A k \in -1..N : BoundPost(k, bound_idx(k, heap, root))

\* A bound(k) that returns two pivots of the array, neither a sentinel, with
\* k strictly between them.
C22_Witness ==
  /\ pc = "idle" /\ WellFormedTree(heap, root)
  /\ \E k \in 0..(N - 1) :
       /\ heap[bound_idx(k, heap, root).left].idx \in 0..(k - 1)
       /\ bound_idx(k, heap, root).right # NULL
       /\ heap[bound_idx(k, heap, root).right].idx \in (k + 1)..(N - 1)

\* The pivot ls_count starts its rightward walk from after bound(k) returned
\* b with b.left on k.
WalkStart(b) == IF b.right = NULL THEN next_pivot(heap, b.left) ELSE b.right

\* C23 as the specification states it: when bound(k) is called with k the
\* idx of an existing pivot, the `right` it returns is the in-order successor
\* of `left`, for every tree shape.
C23_RightIsSuccessor ==
  (pc # "crashed" /\ WellFormedTree(heap, root)) =>
    \A p \in Pivots :
      heap[p].idx < N =>
        /\ bound_idx(heap[p].idx, heap, root).left = p
        /\ bound_idx(heap[p].idx, heap, root).right \in Successors(p)

\* b is what bound(p.idx) returns for the pivot p: `left` is p, and `right`
\* is the last pivot at which the descent from the root to p turned left (p
\* lies in its left subtree), or NULL when it never turned left.
BoundOnPivot(p, b) ==
  /\ b.left = p
  /\ b.right # NULL =>
       /\ b.right \in Pivots
       /\ heap[b.right].idx > heap[p].idx
       /\ p \in PivotsOf(heap, heap[b.right].left)
  /\ b.right = NULL =>
       \A q \in Pivots : p \notin PivotsOf(heap, heap[q].left)

\* C23 amended: when bound(k) is called with k the idx of an existing pivot
\* p, `left` is p and `right` is NULL or the nearest ancestor of p with a
\* greater idx, which need not be the successor of p; the pivot count_of
\* starts its walk from (right, or next_pivot(left) when right is NULL) is a
\* pivot of T with idx > k.
C23_RightIsAnAncestor ==
  (pc # "crashed" /\ WellFormedTree(heap, root)) =>
    \A p \in Pivots :
      /\ BoundOnPivot(p, bound_idx(heap[p].idx, heap, root))
      /\ heap[p].idx < N =>
           /\ WalkStart(bound_idx(heap[p].idx, heap, root)) \in Pivots
           /\ heap[WalkStart(bound_idx(heap[p].idx, heap, root))].idx
                > heap[p].idx

\* A count_of that found its item on a pivot whose successor is not the
\* `right` bound returned for it.
C23_Witness ==
  /\ pc = "done" /\ op.name = "count" /\ WellFormedTree(heap, root)
  /\ \E p \in Pivots :
       /\ heap[p].idx \in 0..(N - 1)
       /\ xs[heap[p].idx] = op.arg[1]
       /\ bound_idx(heap[p].idx, heap, root).right # NULL
       /\ bound_idx(heap[p].idx, heap, root).right \notin Successors(p)

\* The quickselect loop of sort_point or find_item is about to take a turn,
\* with its locals on two neighbouring pivots of a well-formed tree.
InLoop ==
  /\ pc \in {"sp_loop", "fi_loop"}
  /\ WellFormedTree(heap, root)
  /\ left \in Pivots /\ right \in Successors(left)

\* insert_pivot(k) of the turn, descending from `start`.
InsertFrom(start, k, prio, blk) ==
  insert_pivot(k, UNSORTED, heap, root, start, prio, blk)

OrderedTree(h, r) ==
  /\ r # NULL /\ h[r].parent = NULL
  /\ \A p \in PivotsOf(h, r) :
       /\ \A q \in PivotsOf(h, h[p].left) : h[q].idx < h[p].idx
       /\ \A q \in PivotsOf(h, h[p].right) : h[q].idx > h[p].idx
       /\ \A c \in {h[p].left, h[p].right} \ {NULL} :
            /\ h[c].priority <= h[p].priority
            /\ h[c].parent = p

\* d is the tree after delete_node(p): the pivots are those of T without p,
\* each with the idx, flags and priority it had, and in the order they had.
DeletePost(p, d) ==
  /\ d.st = "ok"
  /\ PivotsOf(d.heap, d.root) = Pivots \ {p}
  /\ \A q \in Pivots \ {p} :
       /\ d.heap[q].idx = heap[q].idx
       /\ d.heap[q].flags = heap[q].flags
       /\ d.heap[q].priority = heap[q].priority
  /\ OrderedTree(d.heap, d.root)

\* C25: delete_node(p) on a pivot p of T with zero, one or two children,
\* root or not, removes exactly p: the pivots afterwards are the previous
\* ones without p, each keeps its idx, flags and priority, and their in-order
\* sequence is the previous one with p removed.
C25_DeleteRemovesOne ==
  (pc # "crashed" /\ WellFormedTree(heap, root)) =>
    \A p \in Pivots : DeletePost(p, delete_node(p, heap, root))

\* A pivot with two children whose merge has to descend: the left child has
\* a right child or the right child a left child.
C25_Witness ==
  /\ pc # "crashed" /\ WellFormedTree(heap, root)
  /\ \E p \in Pivots :
       /\ heap[p].left # NULL /\ heap[p].right # NULL
       /\ (heap[heap[p].left].right # NULL \/ heap[heap[p].right].left # NULL)
       /\ DeletePost(p, delete_node(p, heap, root))

\* A turn of the loop of sort_point, or its end, that the process survives.
SortPointTurn == pc = "sp_loop" /\ pc' # "crashed"

\* C26: sort_point(k) modifies only array positions strictly between the
\* pivots left and right it works between: every position <= left.idx and
\* every position >= right.idx holds the same element after a turn of its
\* loop, and after its insertion sort, as before, whether or not comparisons
\* fail.
C26_SortPointStaysInside ==
  [][SortPointTurn =>
       \A i \in DOMAIN xs :
         (i <= heap[left].idx \/ i >= heap[right].idx)
           => (i \in DOMAIN xs' /\ xs'[i] = xs[i])]_vars

\* C27: after every completed public operation no pivot of T carries both
\* SORTED_LEFT and SORTED_RIGHT: a pivot that came to lie between two sorted
\* regions has been deleted by the time the operation returns.
C27_NoPivotSortedBoth ==
  AtRest => \A p \in Pivots : ~(HasLeft(heap[p].flags) /\ HasRight(heap[p].flags))

\* get(k) has been issued once for every k in [0, N), in some order, and the
\* last call has returned.
AllGetsDone == AtRest /\ Length > 0 /\ gets = 0..(Length - 1)

LoopTurn == pc \in {"sp_loop", "fi_loop"} /\ pc' = pc /\ op' = op

\* A turn of the pivot walk of sort_range after which the walk goes on.
WalkTurn == pc = "sr_walk" /\ pc' = "sr_walk"

\* C29: under a total-order comparator that never fails every call of
\* sort_point, sort_range and find_item terminates: no walk over the tree
\* runs for ever, each partition step of a quickselect loop strictly shrinks
\* the region between left and right, and each turn of the walk of sort_range
\* moves `current` strictly towards stop.
C29_CallsTerminate ==
  /\ [](st # "hang")
  /\ [][/\ LoopTurn => heap'[right'].idx - heap'[left'].idx
                         < heap[right].idx - heap[left].idx
        /\ WalkTurn => heap'[left'].idx > heap[left].idx]_vars
====
